---- MODULE Spec2Model ----
(***************************************************************************)
(* Model of the mention-collection core of the Reddit mention tracker:     *)
(* RedditScraper.search_mentions (the aggregator), the three retrieval     *)
(* strategies it calls, the browser session it holds and the post          *)
(* normalizer _extract_post_data (src/reddit_scraper.py).                  *)
(*                                                                         *)
(* Values.  A Python value that may be None is modelled as a tuple: <<>>   *)
(* is None (JSON null) and <<v>> is the value v.  A dict is a function     *)
(* whose DOMAIN is the set of its keys.  Progress values are counted in    *)
(* tenths (0.4 is 4).  Floor division // on naturals is \div.              *)
(***************************************************************************)
EXTENDS Integers, Sequences, FiniteSets, TLC

VARIABLES
    pc,            \* position inside search_mentions ("idle" before a call)
    limit,         \* the limit argument of the call
    has_callback,  \* whether progress_callback was supplied
    all_results,   \* the local list all_results
    driver,        \* self.driver: None or the browser session
    ret,           \* the list the call returned
    outcome,       \* how the call completes: "none" | "return" | "raise"
    progress,      \* values passed to progress_callback so far (tenths)
    calls,         \* strategy invocations so far: <<[strategy, asked]>>
    contrib,       \* what each completed strategy call returned, in call order
    created,       \* browser sessions created during this call
    quits,         \* driver.quit() calls during this call
    caught,        \* the except handler of search_mentions ran
    error,         \* what raised into the try block: "none" | "callback" | "sort" | a strategy
    json_failed,   \* the JSON-API request met a network, HTTP or parse failure
    unique,        \* the local list unique_results before sort (None if never built)
    chrome_failed, \* webdriver.Chrome raised during this call
    page_has_post, \* the rendered page held an extractable post container
    sub_has_post,  \* some subreddit request returned a post
    post_data,     \* normalizer harness: the raw record handed to _extract_post_data
    post,          \* normalizer harness: what _extract_post_data returned (None before)
    api_response,  \* JSON-API harness: the response the single request meets
    json_out,      \* JSON-API harness: what _search_via_json_api did (None before)
    fan,           \* fan-out harness: the locals of _search_multiple_subreddits
    fan_env        \* fan-out harness: the responses the subreddit requests met so far

vars == <<pc, limit, has_callback, all_results, driver, ret, outcome, progress,
          calls, contrib, created, quits, caught, error, json_failed, unique,
          chrome_failed, page_has_post, sub_has_post, post_data, post,
          api_response, json_out, fan, fan_env>>

search_vars == <<pc, limit, has_callback, all_results, driver, ret, outcome,
                 progress, calls, contrib, created, quits, caught, error,
                 json_failed, unique, chrome_failed, page_has_post, sub_has_post>>

norm_vars == <<post_data, post>>

json_vars == <<api_response, json_out>>

fan_vars == <<fan, fan_env>>

harness_vars == <<post_data, post, api_response, json_out, fan, fan_env>>

-----------------------------------------------------------------------------
(* Bounds of the model *)

\* largest limit argument explored
MaxLimit == 4
\* largest number of post containers of the rendered page beyond those the
\* Browser strategy looks at
MaxExtra == 1
\* largest number of keys of a raw record handed to the normalizer harness
MaxKeys == 2
\* largest number of records of data.children handed to the JSON-API harness
MaxChildren == 2
\* largest limit argument handed to the fan-out harness
MaxCount == 20
\* largest number of subreddits, in one run of the fan-out harness, that
\* answer with anything but an empty body
MaxReplies == 2

-----------------------------------------------------------------------------
(* Values *)

None == <<>>
Some(v) == <<v>>

Min(a, b) == IF a < b THEN a ELSE b
Max(a, b) == IF a > b THEN a ELSE b

SeqsUpTo(S, n) == UNION {[1..k -> S] : k \in 0..n}

\* clock readings of int(time.time())
Times == {2}
\* created_utc values the remote site sends
ApiTimes == {1}

-----------------------------------------------------------------------------
(* Post normalizer *)

\* dict.get(key, default): the default only when the key is absent
Get(d, key, default) == IF key \in DOMAIN d THEN d[key] ELSE default

\* str() of a value inside an f-string
Str(v) == IF v = None THEN "None" ELSE v[1]

Fields == {"id", "title", "selftext", "author", "subreddit", "score",
           "upvote_ratio", "num_comments", "created_utc", "url", "permalink",
           "domain", "is_self"}

_extract_post_data(d) ==
    [id           |-> Get(d, "id", Some("")),
     title        |-> Get(d, "title", Some("")),
     selftext     |-> Get(d, "selftext", Some("")),
     author       |-> Get(d, "author", Some("[deleted]")),
     subreddit    |-> Get(d, "subreddit", Some("")),
     score        |-> Get(d, "score", Some(0)),
     upvote_ratio |-> Get(d, "upvote_ratio", Some(0)),
     num_comments |-> Get(d, "num_comments", Some(0)),
     created_utc  |-> Get(d, "created_utc", Some(0)),
     url          |-> Get(d, "url", Some("")),
     permalink    |-> Some(<<"https://www.reddit.com", Str(Get(d, "permalink", Some("")))>>),
     domain       |-> Get(d, "domain", Some("")),
     is_self      |-> Get(d, "is_self", Some(FALSE))]

-----------------------------------------------------------------------------
(* JSON-API strategy *)

\* A response to session.get: error is the step that raises ("none" when
\* none does), has_children whether 'data' and data['children'] are present,
\* children the list data['children'].  A child is Some(raw record), or None
\* when post['data'] raises.
OkResponse(children) == [error |-> "none", has_children |-> TRUE, children |-> children]
FailedResponse(e) == [error |-> e, has_children |-> FALSE, children |-> <<>>]
EmptyBody == [error |-> "none", has_children |-> FALSE, children |-> <<>>]

\* the for loop over data['children']: results.append per child, until the
\* first child that raises (the results appended so far are kept)
RECURSIVE AppendChildren(_, _)
AppendChildren(results, children) ==
    IF children = <<>> THEN results
    ELSE IF Head(children) = None THEN results
    ELSE AppendChildren(Append(results, _extract_post_data(Head(children)[1])),
                        Tail(children))

\* the endpoint's page-size ceiling: 'limit': min(limit, 100)
PageCeiling == 100

\* the 'limit' parameter of the request
RequestLimit(n) == Min(n, PageCeiling)

\* a version without the try / except: a failed request leaves the function
\* as an exception
_search_via_json_api_uncaught(response) ==
    [results |-> IF response.error # "none" THEN <<>>
                 ELSE IF ~response.has_children THEN <<>>
                 ELSE AppendChildren(<<>>, response.children),
     escaped |-> response.error # "none"]

\* results: the list returned; escaped: whether an exception leaves the
\* function (never: except Exception logs a warning and falls through to
\* return results)
_search_via_json_api(response) ==
    [results |-> IF response.error # "none" THEN <<>>
                 ELSE IF ~response.has_children THEN <<>>
                 ELSE AppendChildren(<<>>, response.children),
     escaped |-> FALSE]

-----------------------------------------------------------------------------
(* Browser strategy *)

\* random.randint(100000, 999999)
RandLo == 100000
RandHi == 999999
RandInts == {RandLo, RandHi}

BrowserId(n) == "browser_" \o ToString(n)

\* A post container is Some([rand, now]) when every find_element succeeds
\* (rand: the random number drawn, now: the clock), None when one raises.
_extract_browser_post_data(element) ==
    IF element = None THEN None
    ELSE Some([id           |-> Some(BrowserId(element[1].rand)),
               title        |-> Some("h3"),
               subreddit    |-> Some("subreddit-name"),
               score        |-> Some(0),
               num_comments |-> Some(0),
               permalink    |-> Some(<<"href", "">>),
               created_utc  |-> Some(element[1].now),
               author       |-> Some("N/A"),
               selftext     |-> Some(""),
               upvote_ratio |-> Some(0),
               url          |-> Some("href"),
               domain       |-> Some("reddit.com"),
               is_self      |-> Some(TRUE)])

\* a slice that forgets its bound
TakeAll(s, n) == s

\* s[:n] for n >= 0
Take(s, n) == SubSeq(s, 1, Min(n, Len(s)))

\* the for loop over posts[:limit]: a container whose extraction gives None
\* is skipped
RECURSIVE ExtractAll(_)
ExtractAll(elements) ==
    IF elements = <<>> THEN <<>>
    ELSE LET p == _extract_browser_post_data(Head(elements))
         IN  (IF p = None THEN <<>> ELSE <<p[1]>>) \o ExtractAll(Tail(elements))

\* init_browser: a session is created only when none is held; the error
\* of webdriver.Chrome is logged and re-raised
init_browser(chrome_ok) ==
    IF driver # None
    THEN [driver |-> driver, created |-> created, raised |-> FALSE]
    ELSE IF chrome_ok
         THEN [driver |-> Some("session"), created |-> created + 1, raised |-> FALSE]
         ELSE [driver |-> None, created |-> created, raised |-> TRUE]

\* a version that calls init_browser outside its try block: the error of
\* webdriver.Chrome leaves the function
_search_via_browser_uncaught(page, n) ==
    LET b == init_browser(page.chrome_ok)
    IN  [results |-> IF b.raised \/ ~page.page_ok THEN <<>>
                     ELSE ExtractAll(Take(page.elements, n)),
         driver  |-> b.driver,
         created |-> b.created,
         chrome_failed |-> b.raised,
         escaped |-> b.raised]

\* page: [chrome_ok, page_ok, elements]; chrome_ok is whether webdriver.Chrome
\* succeeds, page_ok whether get / wait / scroll / find_elements succeed.
\* Every exception raised inside the try block, the one of init_browser
\* included, is caught by except Exception (line 179): escaped is FALSE.
_search_via_browser(page, n) ==
    LET b == init_browser(page.chrome_ok)
    IN  [results |-> IF b.raised \/ ~page.page_ok THEN <<>>
                     ELSE ExtractAll(Take(page.elements, n)),
         driver  |-> b.driver,
         created |-> b.created,
         chrome_failed |-> b.raised,
         escaped |-> FALSE]

-----------------------------------------------------------------------------
(* Subreddit fan-out strategy *)

target_subreddits ==
    <<"technology", "business", "news", "worldnews", "stocks",
      "investing", "entrepreneur", "startups", "tech", "gadgets">>

_search_subreddit_json(response) ==
    IF response.error # "none" THEN <<>>
    ELSE IF ~response.has_children THEN <<>>
    ELSE AppendChildren(<<>>, response.children)

posts_per_subreddit(n) == Max(1, n \div Len(target_subreddits))

\* responses[i] is the response to the request for target_subreddits[i]
RECURSIVE FanOutFrom(_, _)
FanOutFrom(responses, i) ==
    IF i > Len(target_subreddits) THEN <<>>
    ELSE _search_subreddit_json(responses[i]) \o FanOutFrom(responses, i + 1)

_search_multiple_subreddits(responses, n) == FanOutFrom(responses, 1)

\* the locals of _search_multiple_subreddits(search_term, n) on entry: i is
\* the position of the for loop in target_subreddits, requests the calls of
\* _search_subreddit_json made so far
FanStart(n) ==
    [count |-> n, i |-> 1, results |-> <<>>, requests |-> <<>>,
     raised |-> FALSE, returned |-> FALSE]

\* one pass of the for loop over target_subreddits: the call of
\* _search_subreddit_json(search_term, subreddit, posts_per_subreddit), then
\* results.extend(subreddit_results).  _search_subreddit_json catches what
\* its request raises, so the except clause of the loop has nothing to catch.
FanOutIterate(state, response) ==
    [state EXCEPT
        !.requests = Append(@, [subreddit |-> target_subreddits[state.i],
                                limit |-> posts_per_subreddit(state.count)]),
        !.results = @ \o _search_subreddit_json(response),
        !.i = @ + 1]

\* the requests the fan-out issues, in order
FanOutRequests(n) ==
    [i \in 1..Len(target_subreddits) |->
        [subreddit |-> target_subreddits[i], limit |-> posts_per_subreddit(n)]]

-----------------------------------------------------------------------------
(* Aggregator: the pure steps of search_mentions *)

\* the seen_ids / unique_results loop
RECURSIVE DedupFrom(_, _, _)
DedupFrom(seen_ids, unique_results, rest) ==
    IF rest = <<>> THEN unique_results
    ELSE IF Head(rest).id \notin seen_ids
         THEN DedupFrom(seen_ids \cup {Head(rest).id},
                        Append(unique_results, Head(rest)), Tail(rest))
         ELSE DedupFrom(seen_ids, unique_results, Tail(rest))

\* a dedup that lets a later copy replace the one kept
RECURSIVE DedupKeepLast(_)
DedupKeepLast(results) ==
    IF results = <<>> THEN <<>>
    ELSE IF \E i \in 2..Len(results) : results[i].id = Head(results).id
         THEN DedupKeepLast(Tail(results))
         ELSE <<Head(results)>> \o DedupKeepLast(Tail(results))

Dedup(results) == DedupFrom({}, <<>>, results)

\* the sort key x.get('created_utc', 0) of a post that has the key
SortKey(x) == x.created_utc

\* list.sort compares the keys pairwise: comparing None with anything raises
\* TypeError; a list of fewer than two elements compares nothing
SortRaises(s) == Len(s) >= 2 /\ \E i \in 1..Len(s) : SortKey(s[i]) = None

\* an insertion that puts x before the elements of equal key
InsertBeforeEqual(sorted, x) ==
    LET before == {i \in 1..Len(sorted) : SortKey(sorted[i])[1] > SortKey(x)[1]}
        k == IF before = {} THEN 0 ELSE CHOOSE i \in before : \A j \in before : j <= i
    IN  SubSeq(sorted, 1, k) \o <<x>> \o SubSeq(sorted, k + 1, Len(sorted))

\* x goes after every element whose key is >= its own
InsertDesc(sorted, x) ==
    LET before == {i \in 1..Len(sorted) : SortKey(sorted[i])[1] >= SortKey(x)[1]}
        k == IF before = {} THEN 0 ELSE CHOOSE i \in before : \A j \in before : j <= i
    IN  SubSeq(sorted, 1, k) \o <<x>> \o SubSeq(sorted, k + 1, Len(sorted))

RECURSIVE SortFrom(_, _)
SortFrom(sorted, rest) ==
    IF rest = <<>> THEN sorted
    ELSE SortFrom(InsertDesc(sorted, Head(rest)), Tail(rest))

\* unique_results.sort(key=created_utc, reverse=True): stable, newest first
SortNewestFirst(s) == SortFrom(<<>>, s)

-----------------------------------------------------------------------------
(* What the remote site and the browser may deliver *)

\* post identifiers the remote site sends
ApiIds == {BrowserId(RandLo), "t3_a", "t3_b"}

\* a raw record of the given id: created_utc absent, null or a timestamp
RawsOf(ids) ==
    {[id |-> Some(i)] : i \in ids}
    \cup {[id |-> Some(i), created_utc |-> u] :
            i \in ids, u \in {None} \cup {Some(t) : t \in ApiTimes}}

ChildrenOf(ids) == {None} \cup {Some(r) : r \in RawsOf(ids)}

Errors == {"network", "http", "parse"}

\* the responses that carry at most n children
Responses(ids, n) ==
    {FailedResponse(e) : e \in Errors} \cup {EmptyBody}
    \cup {OkResponse(c) : c \in SeqsUpTo(ChildrenOf(ids), n)}

Elements == {None} \cup {Some([rand |-> r, now |-> t]) : r \in RandInts, t \in Times}

\* the pages that hold at most n post containers
Pages(n) ==
    {[chrome_ok |-> FALSE, page_ok |-> FALSE, elements |-> <<>>],
     [chrome_ok |-> TRUE, page_ok |-> FALSE, elements |-> <<>>]}
    \cup {[chrome_ok |-> TRUE, page_ok |-> TRUE, elements |-> e] :
            e \in SeqsUpTo(Elements, n)}

\* subreddits that hold posts mentioning the term, with the post each holds
\* (a post lives in one subreddit); the others answer with an empty body
FanSlots == {1, 2, Len(target_subreddits)}
SlotIds(i) == IF i = 1 THEN {"t3_a"} ELSE IF i = 2 THEN {"t3_b"} ELSE {BrowserId(RandLo)}

\* each subreddit endpoint sends at most the number of posts its request asks for
FanResponses(n) ==
    {[i \in 1..Len(target_subreddits) |->
         IF i \in FanSlots THEN g[i] ELSE EmptyBody] :
     g \in {h \in [FanSlots -> Responses(ApiIds, n)] :
               \A i \in FanSlots : \A k \in 1..Len(h[i].children) :
                   h[i].children[k] # None => h[i].children[k][1].id[1] \in SlotIds(i)}}

-----------------------------------------------------------------------------
(* search_mentions, step by step *)

\* RedditScraper() and the state before a call
InitSearch ==
    /\ pc = "idle"
    /\ limit = 0
    /\ has_callback = FALSE
    /\ all_results = <<>>
    /\ driver = None
    /\ ret = <<>>
    /\ outcome = "none"
    /\ progress = <<>>
    /\ calls = <<>>
    /\ contrib = <<>>
    /\ created = 0
    /\ quits = 0
    /\ caught = FALSE
    /\ error = "none"
    /\ json_failed = FALSE
    /\ unique = None
    /\ chrome_failed = FALSE
    /\ page_has_post = FALSE
    /\ sub_has_post = FALSE

\* the harnesses of the single functions, at rest
NormIdle == post_data = << >> /\ post = None
JsonIdle == api_response = EmptyBody /\ json_out = None
FanIdle == fan = FanStart(0) /\ fan_env = <<>>

Init ==
    /\ InitSearch
    /\ NormIdle
    /\ JsonIdle
    /\ FanIdle

\* the call: all_results = [] and entry into the try block
search_mentions ==
    /\ pc = "idle"
    /\ \E l \in 0..MaxLimit, cb \in BOOLEAN :
          /\ limit' = l
          /\ has_callback' = cb
    /\ all_results' = <<>>
    /\ pc' = "progress_0_1"
    /\ UNCHANGED <<driver, ret, outcome, progress, calls, contrib, created,
                   quits, caught, error, json_failed, unique, chrome_failed,
                   page_has_post, sub_has_post>>
    /\ UNCHANGED harness_vars

\* if progress_callback: progress_callback(value); the callback is the
\* caller's code and may raise
Checkpoint(here, value, next) ==
    /\ pc = here
    /\ \/ /\ ~has_callback
          /\ pc' = next
          /\ UNCHANGED <<progress, error>>
       \/ /\ has_callback
          /\ progress' = Append(progress, value)
          /\ pc' = next
          /\ UNCHANGED error
       \/ /\ has_callback
          /\ progress' = Append(progress, value)
          /\ error' = "callback"
          /\ pc' = "except"
    /\ UNCHANGED <<limit, has_callback, all_results, driver, ret, outcome,
                   calls, contrib, created, quits, caught, json_failed, unique,
                   chrome_failed, page_has_post, sub_has_post>>
    /\ UNCHANGED harness_vars

\* a third checkpoint that reports less than the second
Progress_0_7_low == Checkpoint("progress_0_7", 3, "subreddits")

Progress_0_1 == Checkpoint("progress_0_1", 1, "json_api")
Progress_0_4 == Checkpoint("progress_0_4", 4, "browser")
Progress_0_7 == Checkpoint("progress_0_7", 7, "subreddits")
Progress_0_9 == Checkpoint("progress_0_9", 9, "dedup_sort")

\* Strategy 1 (lines 71-72); the endpoint sends at most the number of posts
\* the request asks for
JsonApiStep ==
    /\ pc = "json_api"
    /\ \E response \in Responses(ApiIds, RequestLimit(limit \div 2)) :
          LET r == _search_via_json_api(response)
          IN  /\ json_failed' = (response.error # "none")
              /\ IF r.escaped
                 THEN /\ error' = "json_api"
                      /\ pc' = "except"
                      /\ UNCHANGED <<all_results, contrib>>
                 ELSE /\ all_results' = all_results \o r.results
                      /\ contrib' = Append(contrib, r.results)
                      /\ pc' = "progress_0_4"
                      /\ UNCHANGED error
    /\ calls' = Append(calls, [strategy |-> "json_api", asked |-> limit \div 2])
    /\ UNCHANGED <<limit, has_callback, driver, ret, outcome, progress,
                   created, quits, caught, unique, chrome_failed,
                   page_has_post, sub_has_post>>
    /\ UNCHANGED harness_vars

\* Strategy 2 (lines 79-80)
BrowserStep ==
    /\ pc = "browser"
    /\ \E page \in Pages(limit \div 2 + MaxExtra) :
          LET r == _search_via_browser(page, limit \div 2)
          IN  /\ driver' = r.driver
              /\ created' = r.created
              /\ chrome_failed' = r.chrome_failed
              /\ page_has_post' = \E i \in 1..Len(page.elements) :
                                      page.elements[i] # None
              /\ IF r.escaped
                 THEN /\ error' = "browser"
                      /\ pc' = "except"
                      /\ UNCHANGED <<all_results, contrib>>
                 ELSE /\ all_results' = all_results \o r.results
                      /\ contrib' = Append(contrib, r.results)
                      /\ pc' = "progress_0_7"
                      /\ UNCHANGED error
    /\ calls' = Append(calls, [strategy |-> "browser", asked |-> limit \div 2])
    /\ UNCHANGED <<limit, has_callback, ret, outcome, progress, quits, caught,
                   json_failed, unique, sub_has_post>>
    /\ UNCHANGED harness_vars

\* a test against the count the fan-out is asked for
FanOutNeeded_quarter == Len(all_results) < limit \div 4

\* the test of line 86
FanOutNeeded == Len(all_results) < limit \div 2

\* Strategy 3 (lines 86-89), when the first two gathered fewer than limit // 2
FanOutStep ==
    /\ pc = "subreddits"
    /\ FanOutNeeded
    /\ \E responses \in FanResponses(posts_per_subreddit(limit \div 4)) :
          LET subreddit_results == _search_multiple_subreddits(responses, limit \div 4)
          IN  /\ all_results' = all_results \o subreddit_results
              /\ contrib' = Append(contrib, subreddit_results)
              /\ sub_has_post' = (subreddit_results # <<>>)
    /\ calls' = Append(calls, [strategy |-> "subreddits", asked |-> limit \div 4])
    /\ pc' = "progress_0_9"
    /\ UNCHANGED <<limit, has_callback, driver, ret, outcome, progress,
                   created, quits, caught, error, json_failed, unique,
                   chrome_failed, page_has_post>>
    /\ UNCHANGED harness_vars

FanOutSkip ==
    /\ pc = "subreddits"
    /\ ~FanOutNeeded
    /\ pc' = "progress_0_9"
    /\ UNCHANGED <<limit, has_callback, all_results, driver, ret, outcome,
                   progress, calls, contrib, created, quits, caught, error,
                   json_failed, unique, chrome_failed, page_has_post,
                   sub_has_post>>
    /\ UNCHANGED harness_vars

\* lines 95-106: remove duplicates, sort, return unique_results[:limit];
\* a TypeError of the sort goes to the except handler
DedupSortReturn ==
    /\ pc = "dedup_sort"
    /\ LET unique_results == Dedup(all_results)
       IN  /\ unique' = Some(unique_results)
           /\ IF SortRaises(unique_results)
              THEN /\ error' = "sort"
                   /\ pc' = "except"
                   /\ UNCHANGED <<ret, outcome>>
              ELSE /\ ret' = Take(SortNewestFirst(unique_results), limit)
                   /\ outcome' = "return"
                   /\ pc' = "finally"
                   /\ UNCHANGED error
    /\ UNCHANGED <<limit, has_callback, all_results, driver, progress, calls,
                   contrib, created, quits, caught, json_failed, chrome_failed,
                   page_has_post, sub_has_post>>
    /\ UNCHANGED harness_vars

\* a handler that logs and re-raises
Except_reraise ==
    /\ pc = "except"
    /\ caught' = TRUE
    /\ outcome' = "raise"
    /\ pc' = "finally"
    /\ UNCHANGED <<limit, has_callback, all_results, driver, ret, progress,
                   calls, contrib, created, quits, error, json_failed, unique,
                   chrome_failed, page_has_post, sub_has_post>>
    /\ UNCHANGED harness_vars

\* except Exception (lines 108-110): log, return all_results
Except ==
    /\ pc = "except"
    /\ caught' = TRUE
    /\ ret' = all_results
    /\ outcome' = "return"
    /\ pc' = "finally"
    /\ UNCHANGED <<limit, has_callback, all_results, driver, progress, calls,
                   contrib, created, quits, error, json_failed, unique,
                   chrome_failed, page_has_post, sub_has_post>>
    /\ UNCHANGED harness_vars

\* a close_browser that quits the session and keeps the handle
close_browser_keeps_handle ==
    IF driver # None THEN [driver |-> driver, quits |-> quits + 1]
    ELSE [driver |-> driver, quits |-> quits]

\* if self.driver: self.driver.quit(); self.driver = None
close_browser ==
    IF driver # None THEN [driver |-> None, quits |-> quits + 1]
    ELSE [driver |-> driver, quits |-> quits]

\* finally (lines 112-113): self.close_browser(); then the call ends the way
\* the try block or the handler left it
Finally ==
    /\ pc = "finally"
    /\ driver' = close_browser.driver
    /\ quits' = close_browser.quits
    /\ pc' = "done"
    /\ UNCHANGED <<limit, has_callback, all_results, ret, outcome, progress,
                   calls, contrib, created, caught, error, json_failed, unique,
                   chrome_failed, page_has_post, sub_has_post>>
    /\ UNCHANGED harness_vars

\* the scraper object is ready for another call; the locals of the finished
\* one are gone
NextCall ==
    /\ pc = "done"
    /\ pc' = "idle"
    /\ limit' = 0
    /\ has_callback' = FALSE
    /\ all_results' = <<>>
    /\ ret' = <<>>
    /\ outcome' = "none"
    /\ progress' = <<>>
    /\ calls' = <<>>
    /\ contrib' = <<>>
    /\ created' = 0
    /\ quits' = 0
    /\ caught' = FALSE
    /\ error' = "none"
    /\ json_failed' = FALSE
    /\ unique' = None
    /\ chrome_failed' = FALSE
    /\ page_has_post' = FALSE
    /\ sub_has_post' = FALSE
    /\ UNCHANGED driver
    /\ UNCHANGED harness_vars

Next ==
    \/ search_mentions
    \/ Progress_0_1
    \/ JsonApiStep
    \/ Progress_0_4
    \/ BrowserStep
    \/ Progress_0_7
    \/ FanOutStep
    \/ FanOutSkip
    \/ Progress_0_9
    \/ DedupSortReturn
    \/ Except
    \/ Finally
    \/ NextCall

Spec == Init /\ [][Next]_vars

-----------------------------------------------------------------------------
(* Properties of the aggregator's result *)

Done == pc = "done"

\* the call ended by the return of line 106
NormalReturn == Done /\ ~caught

\* the position in s of the first post whose id is the given one
FirstIdx(s, id) ==
    CHOOSE i \in 1..Len(s) : s[i].id = id /\ \A j \in 1..(i - 1) : s[j].id # id

DistinctIds(s) == \A i, j \in 1..Len(s) : i # j => s[i].id # s[j].id

\* every post of s is the first post of merged that carries its id
FirstSeenOf(s, merged) ==
    \A i \in 1..Len(s) :
        /\ \E k \in 1..Len(merged) : merged[k].id = s[i].id
        /\ s[i] = merged[FirstIdx(merged, s[i].id)]

NewestFirst(s) ==
    \A i, j \in 1..Len(s) :
        i < j => /\ s[i].created_utc # None
                 /\ s[j].created_utc # None
                 /\ s[i].created_utc[1] >= s[j].created_utc[1]

\* posts of equal created_utc keep the order of their first copies in merged
StableOver(s, merged) ==
    \A i, j \in 1..Len(s) :
        (i < j /\ s[i].created_utc = s[j].created_utc)
            => FirstIdx(merged, s[i].id) < FirstIdx(merged, s[j].id)

\* C1 as stated: whatever the strategies returned, the list returned has at
\* most one post per id, and the post kept for an id is the first one met in
\* merge order (JSON-API, Browser, Fan-out).
C1_Original ==
    Done => DistinctIds(ret) /\ FirstSeenOf(ret, all_results)

\* C1 amended: when search_mentions returns from line 106 (its except handler
\* did not run), the list returned has at most one post per id, and the post
\* kept for an id is the first one met in merge order.
C1_DedupOnNormalReturn ==
    NormalReturn => DistinctIds(ret) /\ FirstSeenOf(ret, all_results)

\* a normal return of two posts where a JSON-API post and a later Browser
\* post shared an id
C1_Witness ==
    /\ NormalReturn
    /\ Len(ret) >= 2
    /\ Len(contrib) >= 2
    /\ \E i \in 1..Len(contrib[1]), j \in 1..Len(contrib[2]) :
          /\ contrib[1][i].id = contrib[2][j].id
          /\ contrib[1][i] # contrib[2][j]

\* C2 as stated: the list returned is sorted by created_utc, newest first,
\* and posts of equal created_utc keep the order of the deduplicated merge.
C2_Original ==
    Done => NewestFirst(ret) /\ StableOver(ret, all_results)

\* C2 amended: when search_mentions returns from line 106, the list returned
\* is sorted by created_utc, newest first, and posts of equal created_utc
\* keep the order of the deduplicated merge.
C2_SortedOnNormalReturn ==
    NormalReturn => NewestFirst(ret) /\ StableOver(ret, all_results)

\* a normal return of three posts, two of them of equal created_utc, where
\* the sort moved a post
C2_Witness ==
    /\ NormalReturn
    /\ Len(ret) = 3
    /\ \E i, j \in 1..3 : i < j /\ ret[i].created_utc = ret[j].created_utc
    /\ ret # Take(unique[1], limit)

\* C3 as stated: on every return path the list returned is no longer than
\* limit.
C3_Original ==
    Done => Len(ret) <= limit

\* C3 amended: when search_mentions returns from line 106, the list returned
\* is no longer than limit.
C3_TruncatedOnNormalReturn ==
    NormalReturn => Len(ret) <= limit

\* a normal return that cut unique results off
C3_Witness ==
    /\ NormalReturn
    /\ limit >= 1
    /\ Len(unique[1]) > limit
    /\ Len(ret) = limit

-----------------------------------------------------------------------------
(* Properties of the browser session and of error handling *)

\* C4: at most one browser session is created per call, and however the call
\* ends (normal return or caught error) the session has been quit and
\* self.driver is None.
C4_OneSessionAlwaysClosed ==
    /\ created <= 1
    /\ quits <= created
    /\ driver # None => created = 1 /\ quits = 0
    /\ Done => driver = None /\ quits = created
    /\ pc = "idle" => driver = None

\* a call that created a session and ended through the except handler
C4_Witness ==
    Done /\ caught /\ created = 1 /\ quits = 1 /\ driver = None

RECURSIVE Concat(_)
Concat(lists) ==
    IF lists = <<>> THEN <<>> ELSE Head(lists) \o Concat(Tail(lists))

\* C6: an error raised inside the try block of search_mentions (by the
\* progress callback, by the sort) is not propagated: the call returns
\* exactly the posts of the strategies completed before the failure.
C6_CaughtErrorReturnsPartial ==
    /\ outcome # "raise"
    /\ (error # "none" /\ pc \in {"finally", "done"}) => caught
    /\ caught => /\ outcome = "return"
                 /\ Len(contrib) = Len(calls)
                 /\ ret = Concat(contrib)

\* the callback raised at the third checkpoint, after two strategies had
\* gathered posts
C6_Witness ==
    /\ Done /\ caught /\ error = "callback"
    /\ Len(calls) = 2
    /\ contrib[1] # <<>> /\ contrib[2] # <<>>
    /\ ret = contrib[1] \o contrib[2]

\* C7 as stated: for any limit >= 1, when the JSON-API strategy fails, the
\* call raises nothing and returns a non-empty list whenever the rendered
\* page holds an extractable post or a subreddit search returns a post
\* (stated for the calls in which nothing raises into the try block).
C7_Original ==
    (Done /\ limit >= 1 /\ json_failed /\ error = "none"
          /\ (page_has_post \/ sub_has_post))
        => outcome = "return" /\ ret # <<>>

\* C7 amended: for any limit >= 2, when the JSON-API strategy fails and the
\* progress callback does not raise, the call raises nothing, runs the
\* Fan-out whenever the Browser strategy extracted nothing, and returns a
\* non-empty list whenever one of the first limit // 2 post containers of the
\* page is extractable or a subreddit search returns a post.
C7_ResilientFromLimitTwo ==
    (Done /\ limit >= 2 /\ json_failed /\ error # "callback")
        => /\ outcome = "return"
           /\ Len(contrib) >= 2
           /\ contrib[1] = <<>>
           /\ contrib[2] = <<>> => Len(calls) = 3
           /\ (contrib[2] # <<>> \/ sub_has_post) => ret # <<>>

\* the JSON-API request failed, the page gave nothing, and the posts of the
\* subreddit searches were returned
C7_Witness ==
    /\ Done /\ limit >= 2 /\ json_failed /\ error = "none"
    /\ contrib[2] = <<>> /\ sub_has_post /\ ret # <<>>

-----------------------------------------------------------------------------
(* Properties of the order of the stages *)

\* the strategy calls a complete run makes, with the counts asked for
ExpectedCalls ==
    <<[strategy |-> "json_api", asked |-> limit \div 2],
      [strategy |-> "browser", asked |-> limit \div 2],
      [strategy |-> "subreddits", asked |-> limit \div 4]>>

InOrder ==
    /\ Len(calls) <= 3
    /\ \A i \in 1..Len(calls) : calls[i] = ExpectedCalls[i]
    /\ Len(contrib) = Len(calls)

\* posts gathered from the first two strategies
Gathered ==
    (IF Len(contrib) >= 1 THEN Len(contrib[1]) ELSE 0)
    + (IF Len(contrib) >= 2 THEN Len(contrib[2]) ELSE 0)

FanOutRan == Len(calls) = 3

\* the call got as far as the test of line 86
ReachedFanOutTest == ~(error = "callback" /\ Len(progress) < 4)

\* C8 as stated: the strategies run one after another in the order JSON-API
\* (limit // 2), Browser (limit // 2), Fan-out (limit // 4), and the Fan-out
\* runs if and only if the first two gathered fewer than limit // 2 posts.
C8_Original ==
    /\ InOrder
    /\ Done => (FanOutRan <=> Gathered < limit \div 2)

\* C8 amended: the strategies run one after another in the order JSON-API
\* (limit // 2), Browser (limit // 2), Fan-out (limit // 4); the Fan-out runs
\* if and only if no progress callback raised before the test of line 86 and
\* the first two gathered fewer than limit // 2 posts.
C8_SequentialStages ==
    /\ InOrder
    /\ Done => (FanOutRan <=> (ReachedFanOutTest /\ Gathered < limit \div 2))

\* a call whose first two strategies gathered a post, too few to skip the
\* Fan-out
C8_Witness ==
    Done /\ FanOutRan /\ Gathered >= 1 /\ error = "none"

\* C9: the values passed to the progress callback during one call are
\* strictly increasing and lie in [0.0, 1.0] (in tenths: 0..10), whichever
\* strategies fail and whether or not the Fan-out runs.
C9_ProgressIncreasing ==
    /\ \A i \in 1..Len(progress) : progress[i] >= 0 /\ progress[i] <= 10
    /\ \A i, j \in 1..Len(progress) : i < j => progress[i] < progress[j]
    /\ ~has_callback => progress = <<>>

\* all four checkpoints reported in a call whose JSON-API request and browser
\* failed and whose Fan-out was skipped
C9_Witness ==
    /\ Done /\ Len(progress) = 4
    /\ json_failed /\ chrome_failed /\ ~FanOutRan

-----------------------------------------------------------------------------
(* The normalizer on its own: _extract_post_data applied to a raw record *)

\* a well-formed value of each field
Sample(k) ==
    IF k \in {"score", "upvote_ratio", "num_comments", "created_utc"} THEN Some(5)
    ELSE IF k = "is_self" THEN Some(TRUE)
    ELSE Some("x")

\* the raw records of at most MaxKeys keys, each key null or well-formed
RawRecords ==
    UNION {{[k \in K |-> IF k \in N THEN None ELSE Sample(k)] : N \in SUBSET K} :
           K \in {S \in SUBSET Fields : Cardinality(S) <= MaxKeys}}

InitNorm ==
    /\ InitSearch
    /\ post_data \in RawRecords
    /\ post = None
    /\ JsonIdle
    /\ FanIdle

\* results.append(self._extract_post_data(post_data))
Normalize ==
    /\ post = None
    /\ post' = Some(_extract_post_data(post_data))
    /\ UNCHANGED post_data
    /\ UNCHANGED search_vars
    /\ UNCHANGED <<json_vars, fan_vars>>

NextNorm == Normalize

SpecNorm == InitNorm /\ [][NextNorm]_vars

\* the safe default of each field
Default(k) ==
    IF k \in {"score", "upvote_ratio", "num_comments", "created_utc"} THEN Some(0)
    ELSE IF k = "is_self" THEN Some(FALSE)
    ELSE IF k = "author" THEN Some("[deleted]")
    ELSE Some("")

\* C10 as stated: for a raw record in which any fields are missing or null,
\* the normalizer returns a post with all 13 fields present, each missing or
\* null field set to its safe default (score 0, num_comments 0, upvote_ratio
\* 0.0, created_utc 0, is_self false, author "[deleted]", the empty string
\* for id, title, selftext, subreddit, url and domain).
C10_Original ==
    post # None =>
        /\ DOMAIN post[1] = Fields
        /\ \A k \in Fields \ {"permalink"} :
              (k \notin DOMAIN post_data \/ post_data[k] = None)
                  => post[1][k] = Default(k)

-----------------------------------------------------------------------------
(* The JSON-API strategy on its own: _search_via_json_api on every response *)

InitJson ==
    /\ InitSearch
    /\ NormIdle
    /\ api_response \in Responses(ApiIds, MaxChildren)
    /\ json_out = None
    /\ FanIdle

\* json_results = self._search_via_json_api(search_term, time_filter, sort, n)
JsonCall ==
    /\ json_out = None
    /\ json_out' = Some(_search_via_json_api(api_response))
    /\ UNCHANGED api_response
    /\ UNCHANGED search_vars
    /\ UNCHANGED <<norm_vars, fan_vars>>

NextJson == JsonCall

SpecJson == InitJson /\ [][NextJson]_vars

\* the request meets a failure: session.get, raise_for_status or
\* response.json() raises, or post['data'] raises at some record of
\* data['children']
MeetsFailure(r) ==
    \/ r.error # "none"
    \/ \E k \in 1..Len(r.children) : r.children[k] = None

\* C11 as stated: whenever the JSON-API strategy meets a network, HTTP-status
\* or parse failure at any point of handling its single request, a parse
\* failure at a later record of data.children after earlier records were
\* normalized included, it raises nothing and returns an empty list.
C11_Original ==
    (json_out # None /\ MeetsFailure(api_response)) =>
        /\ ~json_out[1].escaped
        /\ json_out[1].results = <<>>

-----------------------------------------------------------------------------
(* The Fan-out strategy on its own: _search_multiple_subreddits, one pass of
   its loop at a time, for every limit and every answer of the subreddits *)

\* the post the i-th subreddit holds
SubredditId(i) ==
    IF i % 3 = 1 THEN "t3_a" ELSE IF i % 3 = 2 THEN "t3_b" ELSE BrowserId(RandLo)

\* the responses of the i-th subreddit to a request for at most n posts
SubredditResponses(i, n) ==
    {FailedResponse(e) : e \in Errors} \cup {EmptyBody}
    \cup {OkResponse(c) : c \in SeqsUpTo({None, Some([id |-> Some(SubredditId(i))])}, n)}

\* the number of responses so far that are not an empty body
Replies(responses) == Cardinality({k \in 1..Len(responses) : responses[k] # EmptyBody})

InitFanOut ==
    /\ InitSearch
    /\ NormIdle
    /\ JsonIdle
    /\ \E n \in 0..MaxCount : fan = FanStart(n)
    /\ fan_env = <<>>

\* for subreddit in target_subreddits: ...
FanOutIteration ==
    /\ ~fan.returned
    /\ fan.i <= Len(target_subreddits)
    /\ \E r \in SubredditResponses(fan.i, posts_per_subreddit(fan.count)) :
          /\ r # EmptyBody => Replies(fan_env) < MaxReplies
          /\ fan' = FanOutIterate(fan, r)
          /\ fan_env' = Append(fan_env, r)
    /\ UNCHANGED search_vars
    /\ UNCHANGED <<norm_vars, json_vars>>

\* return results
FanOutReturn ==
    /\ ~fan.returned
    /\ fan.i > Len(target_subreddits)
    /\ fan' = [fan EXCEPT !.returned = TRUE]
    /\ UNCHANGED fan_env
    /\ UNCHANGED search_vars
    /\ UNCHANGED <<norm_vars, json_vars>>

NextFanOut == FanOutIteration \/ FanOutReturn

SpecFanOut == InitFanOut /\ [][NextFanOut]_vars

\* the normalized records of a response
NormalizedOf(r) ==
    [k \in 1..Len(r.children) |-> _extract_post_data(r.children[k][1])]

\* the concatenation, in order, of the normalized records of the responses
\* whose handling met no failure
RECURSIVE SucceededResults(_)
SucceededResults(responses) ==
    IF responses = <<>> THEN <<>>
    ELSE (IF MeetsFailure(Head(responses)) THEN <<>> ELSE NormalizedOf(Head(responses)))
         \o SucceededResults(Tail(responses))

\* one request to each subreddit so far, in list order, each asking for
\* max(1, count // 10) posts
AskedInListOrder ==
    fan.requests = [k \in 1..Len(fan.requests) |->
                       [subreddit |-> target_subreddits[k],
                        limit |-> Max(1, fan.count \div 10)]]

\* what holds of every run: one request per subreddit in list order with the
\* share max(1, count // 10), no exception, and on return all ten asked and
\* the result that of the loop over all ten responses
FanOutNeverAborts ==
    /\ ~fan.raised
    /\ AskedInListOrder
    /\ fan.returned =>
          /\ Len(fan.requests) = Len(target_subreddits)
          /\ fan.results = _search_multiple_subreddits(fan_env, fan.count)

\* C12 as stated: for any requested count and any subset of subreddits whose
\* request fails, the Fan-out strategy issues exactly one search request to
\* each subreddit of the fixed 10-name list, in list order, each asking for
\* max(1, count // 10) posts; it never raises, and it returns the
\* concatenation, in list order, of the normalized results of the subreddits
\* that succeeded.
C12_Original ==
    /\ ~fan.raised
    /\ AskedInListOrder
    /\ fan.returned =>
          /\ Len(fan.requests) = 10
          /\ fan.results = SucceededResults(fan_env)

====
